---- MODULE Spec2Model ----
(***************************************************************************)
(* A model of nozomi's interaction controller (src/src/controller.py):     *)
(*   - split_text / paginate_embed, the embed pagination;                  *)
(*   - Controller.Context, the per-interaction response session            *)
(*     (defer / send) and Controller.execute, which runs an action;        *)
(*   - the command registry and Controller.dispatch_*.                     *)
(*                                                                         *)
(* Python values are modelled as follows.  Optional[T] is a sequence:      *)
(* None is <<>> and a value v is <<v>>.  A str whose characters matter     *)
(* (an embed description) is a sequence of one-character strings; other    *)
(* strings are TLA+ strings.  An embed field is an integer that names it   *)
(* (its name, value and inline flag are copied unchanged by the source).   *)
(*                                                                         *)
(* What the source leaves unfinished is not modelled: the body of          *)
(* Command.__call__ (controller.py, line 82).  Of Executor (executor.py)   *)
(* the model has the statements that are there: Executor.__init__, and     *)
(* Executor.Context.defer and send up to the statement they stop at.       *)
(* The registry module and register_application_commands, which fill       *)
(* COMMAND_ID_TO_INTERACTION, are not part of the source: register and     *)
(* register_component follow the design document instead.                  *)
(***************************************************************************)
EXTENDS Integers, Sequences, FiniteSets, TLC

VARIABLES
    \* pagination (paginate_embed called on its own)
    embed,          \* the embed handed to paginate_embed
    embeds,         \* what paginate_embed gave: <<>> before the call
    \* one interaction's Controller.Context and the execute() that runs it
    interaction,    \* Context.interaction: its kind
    message,        \* Context.message: Optional[hikari.Message]
    ephemeral,      \* Context.ephemeral: Optional[bool]
    calls,          \* the calls made on Context.rest, in order
    pc,             \* where execute() is: "action", "done" ("idle": not called)
    last,           \* the last operation on the context and how it ended
    outcome,        \* how the action ended, and what execute() made of it
    \* registry and dispatch
    COMMANDS,                   \* registry.COMMANDS: name -> Command
    COMMAND_ID_TO_INTERACTION,  \* registry: command tree, path -> action
    COMPONENT_ID_TO_INTERACTION,\* registry: custom_id -> action
    registered,     \* the last registration and how it ended
    dispatched,     \* the last dispatch and how it ended
    \* paginate_embed followed one iteration of its page loop at a time
    loop,           \* its local variables: <<>> when it is not followed
    \* one Executor (executor.py) and the interactions it is used for
    executor,       \* Executor.ephemeral and Executor.message
    handled         \* the calls made on the Executor's contexts, in order

vars == <<embed, embeds, interaction, message, ephemeral, calls, pc, last,
          outcome, COMMANDS, COMMAND_ID_TO_INTERACTION,
          COMPONENT_ID_TO_INTERACTION, registered, dispatched, loop,
          executor, handled>>

splitVars == <<embed, embeds>>
sessionVars == <<interaction, message, ephemeral, calls, pc, last, outcome>>
registryVars == <<COMMANDS, COMMAND_ID_TO_INTERACTION,
                  COMPONENT_ID_TO_INTERACTION, registered, dispatched>>
loopVars == <<loop>>
executorVars == <<executor, handled>>

----------------------------------------------------------------------------
(* Python's Optional, truthiness and slices                                *)

None == <<>>
Some(v) == <<v>>

NL == "\n"
SP == " "

Max(S) == CHOOSE x \in S : \A y \in S : y <= x

\* s.rfind(ch, start, end): the highest 0-based index i, start <= i < end,
\* with s[i] = ch, or -1.
rfind(s, ch, start, end) ==
    LET stop == IF end < Len(s) THEN end ELSE Len(s)
        hits == {i \in start..(stop - 1) : s[i + 1] = ch}
    IN  IF hits = {} THEN -1 ELSE Max(hits)

\* s[:index] and s[rindex:] for 0 <= index, rindex
SliceTo(s, index) == SubSeq(s, 1, IF index < Len(s) THEN index ELSE Len(s))
SliceFrom(s, rindex) == SubSeq(s, rindex + 1, Len(s))

----------------------------------------------------------------------------
(* split_text and paginate_embed                                           *)

DescriptionLimit == 2048
FieldLimit == 15
PageLimit == 10

\* split_text with the hard cut one character late
split_text_late_cut(s, limit) ==
    IF Len(s) < limit
    THEN <<s, <<>>>>
    ELSE LET nl == rfind(s, NL, 0, limit)
             sp == rfind(s, SP, 0, limit)
             index == IF nl >= 0 THEN nl ELSE IF sp >= 0 THEN sp ELSE limit + 1
             rindex == IF nl >= 0 THEN nl + 1
                       ELSE IF sp >= 0 THEN sp + 1 ELSE limit + 1
         IN  <<SliceTo(s, index), SliceFrom(s, rindex)>>

split_text(s, limit) ==
    IF Len(s) < limit
    THEN <<s, <<>>>>
    ELSE LET nl == rfind(s, NL, 0, limit)
             sp == rfind(s, SP, 0, limit)
             index == IF nl >= 0 THEN nl ELSE IF sp >= 0 THEN sp ELSE limit
             rindex == IF nl >= 0 THEN nl + 1
                       ELSE IF sp >= 0 THEN sp + 1 ELSE limit
         IN  <<SliceTo(s, index), SliceFrom(s, rindex)>>

\* bool(embed.description): neither None nor ""
Truthy(opt) == opt # None /\ opt[1] # <<>>

\* MoveFields with the inner loop running while the page has 15 fields
MoveFields_from_limit(pageFields, fields, description) ==
    LET n == Len(pageFields)
        keep == IF description # <<>> THEN 0
                ELSE IF n >= FieldLimit THEN FieldLimit - 1 ELSE n
    IN  <<SubSeq(pageFields, 1, keep),
          fields \o [i \in 1..(n - keep) |-> pageFields[n - i + 1]]>>

\* The inner loop of paginate_embed: while the page has fields, and more
\* than 15 of them or a carried description, pop its last field and append
\* it to the carry list.  The loop stops with `keep` fields on the page; the
\* popped ones are appended last first.  Gives <<the page's fields, the
\* carry list>>.
MoveFields(pageFields, fields, description) ==
    LET n == Len(pageFields)
        keep == IF description # <<>> THEN 0
                ELSE IF n > FieldLimit THEN FieldLimit ELSE n
    IN  <<SubSeq(pageFields, 1, keep),
          fields \o [i \in 1..(n - keep) |-> pageFields[n - i + 1]]>>

\* PageTitle with the page number taken before `page += 1`
PageTitle_before_increment(base_title, page) ==
    base_title \o " (" \o ToString(page - 1) \o ")"

\* base_title + f" ({page})"; base_title is a str here
PageTitle(base_title, page) == base_title \o " (" \o ToString(page) \o ")"

\* The outer loop of paginate_embed, one call per iteration.  Gives
\* [raised, embeds]: raised is None, or the error that ends the function.
RECURSIVE PaginateLoop(_, _, _, _)
PaginateLoop(e, done, base_title, page) ==
    LET split == IF Truthy(e.description)
                 THEN split_text(e.description[1], DescriptionLimit)
                 ELSE <<<<>>, <<>>>>
        description == split[2]
        moved == MoveFields(e.fields, <<>>, description)
        fields == moved[2]
        thisPage == [title |-> e.title,
                     description |-> IF Truthy(e.description)
                                     THEN Some(split[1]) ELSE e.description,
                     fields |-> moved[1]]
        out == Append(done, thisPage)
    IN  IF description # <<>> \/ fields # <<>>
        THEN IF base_title = None
             THEN [raised |-> Some("TypeError"), embeds |-> <<>>]
             ELSE PaginateLoop(
                     [title |-> Some(PageTitle(base_title[1], page + 1)),
                      description |-> Some(description),
                      fields |-> fields],
                     out, base_title, page + 1)
        ELSE IF Len(out) > PageLimit
             THEN [raised |-> Some("ValueError"), embeds |-> <<>>]
             ELSE [raised |-> None, embeds |-> out]

paginate_embed(e) == PaginateLoop(e, <<>>, e.title, 1)

----------------------------------------------------------------------------
(* The embeds paginate_embed is tried on                                   *)

MaxSegments == 3
MaxFields == 151

Run(ch, n) == [i \in 1..n |-> ch]

Segments ==
    {<<NL>>, <<SP>>}
        \cup {Run("a", n) : n \in {1, DescriptionLimit - 2,
                                   DescriptionLimit - 1, DescriptionLimit}}

RECURSIVE Texts(_)
Texts(n) ==
    IF n = 0 THEN {<<>>}
    ELSE LET shorter == Texts(n - 1)
         IN  shorter \cup {t \o g : t \in shorter, g \in Segments}

Fields(n) == [i \in 1..n |-> i]

Titles == {None, Some("X")}

Embeds ==
    [title : Titles,
     description : {Some(t) : t \in Texts(MaxSegments)},
     fields : {Fields(n) : n \in {0, 1, FieldLimit + 1}}]
      \cup
    [title : Titles,
     description : {None},
     fields : {Fields(n) : n \in 0..MaxFields}]

InitSplit ==
    /\ embed \in Embeds
    /\ embeds = <<>>

Paginate ==
    /\ embeds = <<>>
    /\ embeds' = Some(paginate_embed(embed))
    /\ UNCHANGED <<embed, sessionVars, registryVars, loopVars, executorVars>>

----------------------------------------------------------------------------
(* paginate_embed, one iteration of its page loop at a time                *)

\* Lines 44-48: the local variables on entry.  description and fields, the
\* carry of an iteration, are empty again when the next one starts (lines
\* 65-66) and are part of the next embed by then.
Entry(e) ==
    [embed |-> Some(e), embeds |-> <<>>, base_title |-> e.title, page |-> 1,
     at |-> "while", raised |-> None]

\* Lines 51-56 on the embed e: the page appended to embeds, and the
\* description and the fields carried over.
Iteration(e) ==
    LET split == IF Truthy(e.description)
                 THEN split_text(e.description[1], DescriptionLimit)
                 ELSE <<<<>>, <<>>>>
        moved == MoveFields(e.fields, <<>>, split[2])
    IN  [appended |-> [title |-> e.title,
                       description |-> IF Truthy(e.description)
                                       THEN Some(split[1]) ELSE e.description,
                       fields |-> moved[1]],
         description |-> split[2],
         fields |-> moved[2]]

\* One iteration of `while embed` (lines 50-68)
Iterate ==
    /\ loop # None
    /\ loop[1].at = "while"
    /\ loop[1].embed # None
    /\ LET l == loop[1]
           it == Iteration(l.embed[1])
           out == Append(l.embeds, it.appended)
       IN  loop' = Some(
             IF it.description # <<>> \/ it.fields # <<>>
             THEN IF l.base_title = None
                  THEN [l EXCEPT !.embeds = out, !.page = l.page + 1,
                                 !.at = "raised",
                                 !.raised = Some("TypeError")]
                  ELSE [l EXCEPT
                          !.embeds = out, !.page = l.page + 1,
                          !.embed = Some(
                            [title |-> Some(PageTitle(l.base_title[1],
                                                      l.page + 1)),
                             description |-> Some(it.description),
                             fields |-> it.fields])]
             ELSE [l EXCEPT !.embeds = out, !.embed = None])
    /\ UNCHANGED <<splitVars, sessionVars, registryVars, executorVars>>

\* Lines 69-71, after the loop
CheckPages ==
    /\ loop # None
    /\ loop[1].at = "while"
    /\ loop[1].embed = None
    /\ loop' = Some(IF Len(loop[1].embeds) > PageLimit
                    THEN [loop[1] EXCEPT !.at = "raised",
                                         !.raised = Some("ValueError")]
                    ELSE [loop[1] EXCEPT !.at = "returned"])
    /\ UNCHANGED <<splitVars, sessionVars, registryVars, executorVars>>

InitLoop ==
    /\ embed \in Embeds
    /\ embeds = <<>>
    /\ loop = Some(Entry(embed))

----------------------------------------------------------------------------
(* Controller.Context: defer and send                                      *)

MaxOps == 3

\* Python values of several types: None, a str, an Embed, a list of Embeds
NoneValue == [type |-> "NoneType"]
Str(t) == [type |-> "str", str |-> t]
Embed(e) == [type |-> "Embed", embed |-> e]
EmbedList(l) == [type |-> "list", embeds |-> l]

Kinds == {"command", "component", "autocomplete", "modal"}

\* The embeds an action hands to send or returns: one page, two pages,
\* two pages without a title, and more pages than paginate_embed allows.
FieldEmbed(title, n) == [title |-> title, description |-> None, fields |-> Fields(n)]

ActionEmbeds ==
    {FieldEmbed(Some("X"), 1), FieldEmbed(Some("X"), FieldLimit + 1),
     FieldEmbed(None, FieldLimit + 1),
     FieldEmbed(Some("X"), PageLimit * FieldLimit + 1)}

\* isinstance(self.interaction, hikari.ComponentInteraction)
IsComponent == interaction = "component"

\* One more operation on the context: which, its arguments, what it raised.
Operation(op, eph, follow_up, raised) ==
    Some([n |-> IF last = None THEN 1 ELSE last[1].n + 1,
          op |-> op, ephemeral |-> eph, follow_up |-> follow_up,
          raised |-> raised])

Operations == IF last = None THEN 0 ELSE last[1].n

\* One more send on the context: an Operation with the embed keyword it got.
SendOperation(eph, follow_up, raised, kwembed) ==
    LET o == Operation("send", eph, follow_up, raised)[1]
    IN  Some([n |-> o.n, op |-> o.op, ephemeral |-> o.ephemeral,
              follow_up |-> o.follow_up, raised |-> o.raised,
              embed |-> kwembed])

\* create_interaction_response passing on the first of the embeds only
create_interaction_response_first_embed(type, flags, kwembeds) ==
    [method |-> "create_interaction_response", type |-> type,
     flags |-> flags, content |-> None,
     embeds |-> IF kwembeds = None THEN None
                ELSE Some(SubSeq(kwembeds[1], 1, 1))]

\* self.rest.create_interaction_response(interaction, token, type, **kwargs)
create_interaction_response(type, flags, kwembeds) ==
    [method |-> "create_interaction_response", type |-> type,
     flags |-> flags, content |-> None, embeds |-> kwembeds]

\* self.rest.execute_webhook(application_id, token, *args, **kwargs)
execute_webhook(args, flags, kwembeds) ==
    [method |-> "execute_webhook", type |-> "",
     flags |-> flags, content |-> args, embeds |-> kwembeds]

\* Context.defer(ephemeral, follow_up)
defer(eph, follow_up) ==
    /\ pc = "action"
    /\ Operations < MaxOps
    /\ IF message # None
       THEN /\ UNCHANGED <<ephemeral, calls>>
       ELSE /\ ephemeral' = Some(eph)
            /\ calls' = Append(calls,
                 create_interaction_response(
                     IF IsComponent /\ ~follow_up
                     THEN "DEFERRED_MESSAGE_UPDATE"
                     ELSE "DEFERRED_MESSAGE_CREATE",
                     IF eph THEN "EPHEMERAL" ELSE "UNDEFINED",
                     None))
    /\ last' = Operation("defer", eph, follow_up, None)
    /\ UNCHANGED <<interaction, message, pc, outcome, splitVars, registryVars,
                   loopVars, executorVars>>

\* The ephemeral flag after send's lines 162-163.
SendEphemeral(eph, follow_up) ==
    IF ephemeral = None \/ (follow_up /\ message # None)
    THEN Some(eph) ELSE ephemeral

\* The flags send passes on: EPHEMERAL only when it has just set the flag.
SendFlags(eph, follow_up) ==
    IF (ephemeral = None \/ (follow_up /\ message # None)) /\ eph
    THEN "EPHEMERAL" ELSE "UNDEFINED"

\* Context.send(*args, ephemeral, follow_up, embed=...): args is the
\* positional content (None: no argument), kwembed the embed keyword.
send(args, eph, follow_up, kwembed) ==
    /\ pc = "action"
    /\ Operations < MaxOps
    /\ LET paged == IF kwembed = None
                    THEN [raised |-> None, embeds |-> <<>>]
                    ELSE paginate_embed(kwembed[1])
           kwembeds == IF kwembed = None THEN None ELSE Some(paged.embeds)
           flags == SendFlags(eph, follow_up)
       IN  IF paged.raised # None
           THEN \* paginate_embed raises before anything is touched
                /\ last' = SendOperation(eph, follow_up, paged.raised, kwembed)
                /\ UNCHANGED <<ephemeral, calls>>
           ELSE /\ ephemeral' = SendEphemeral(eph, follow_up)
                /\ IF message = None
                   THEN /\ calls' = Append(calls,
                            create_interaction_response(
                                IF IsComponent /\ ~follow_up
                                THEN "(MESSAGE_UPDATE,)"
                                ELSE "MESSAGE_CREATE",
                                flags, kwembeds))
                        /\ last' = SendOperation(eph, follow_up, None, kwembed)
                   ELSE IF follow_up
                   THEN /\ calls' = Append(calls,
                            execute_webhook(args, flags, kwembeds))
                        /\ last' = SendOperation(eph, follow_up, None, kwembed)
                   ELSE \* edit_interaction_response(..., *args**kwargs):
                        \* args ** kwargs raises before the call is made
                        /\ calls' = calls
                        /\ last' = SendOperation(eph, follow_up,
                                                 Some("TypeError"), kwembed)
    /\ UNCHANGED <<interaction, message, pc, outcome, splitVars, registryVars,
                   loopVars, executorVars>>

----------------------------------------------------------------------------
(* Controller.execute                                                      *)

\* How an action ends: it returns a value, raises NozomiError(*args) or
\* raises another exception.
Endings ==
    [kind : {"return"},
     value : {NoneValue, Str(""), Str("Done")} \cup {Embed(e) : e \in ActionEmbeds}]
      \cup
    [kind : {"NozomiError"},
     args : {<<>>, <<Str("Not allowed")>>, <<Str("")>>}]
      \cup
    [kind : {"Exception"}, args : {<<Str("boom")>>, <<Str("secret")>>}]

\* bool(response)
ResponseTruthy(r) ==
    CASE r.type = "NoneType" -> FALSE
      [] r.type = "str" -> r.str # ""
      [] OTHER -> TRUE

\* response after the try statement of execute (lines 245-255)
Response(ending) ==
    CASE ending.kind = "return" -> ending.value
      [] ending.kind = "NozomiError" ->
            IF ending.args # <<>> THEN ending.args[1] ELSE Str("Failed")
      [] OTHER -> Str("Internal server error")

\* Lines 256-259 of execute.  context.send(response) is not awaited: it
\* makes a coroutine object and drops it, and the body of send never runs.
execute(ending) ==
    /\ pc = "action"
    /\ LET response == Response(ending)
           paged == IF ResponseTruthy(response) /\ response.type = "Embed"
                    THEN paginate_embed(response.embed)
                    ELSE [raised |-> None, embeds |-> <<>>]
           sent == IF response.type = "Embed"
                   THEN EmbedList(paged.embeds) ELSE response
       IN  outcome' = Some(
               [ending |-> ending,
                before |-> calls,
                logged |-> ending.kind = "Exception",
                response |-> response,
                coroutine |-> IF ResponseTruthy(response) /\ paged.raised = None
                              THEN Some(sent) ELSE None,
                escaped |-> paged.raised])
    /\ pc' = "done"
    /\ UNCHANGED <<interaction, message, ephemeral, calls, last, splitVars,
                   registryVars, loopVars, executorVars>>

InitSession ==
    /\ interaction \in Kinds
    /\ message = None
    /\ ephemeral = None
    /\ calls = <<>>
    /\ pc = "action"
    /\ last = None
    /\ outcome = None

----------------------------------------------------------------------------
(* The command registry                                                    *)

Names == {"top", "g", "s"}
Actions == {"A", "B", "C"}
CustomIds == {"button"}
ComponentActions == {"P"}

\* Every registration in the tree brings an action of its own: the first
\* is A, the second B, ...
ActionNames == <<"A", "B", "C", "D", "E", "F">>
NewAction == ActionNames[Cardinality(COMMAND_ID_TO_INTERACTION) + 1]
MaxDepth == 3
MaxNodes == 3

\* dict lookups on a registry kept as a set of <<key, value>> pairs
Keys(registry) == {kv[1] : kv \in registry}
Lookup(registry, key) == (CHOOSE kv \in registry : kv[1] = key)[2]

\* registry.COMMANDS[self.name] = self
SetItem(registry, key, value) ==
    {kv \in registry : kv[1] # key} \cup {<<key, value>>}

\* Command.__init__(decorated, name): the Command is stored under its name,
\* whatever was stored there.  (name stands for the name given or the one
\* derived from decorated.)
Command_init(name, decorated) ==
    /\ COMMANDS' = SetItem(COMMANDS, name, decorated)
    /\ registered' = Some([name |-> name, decorated |-> decorated,
                           raised |-> None])
    /\ UNCHANGED <<COMMAND_ID_TO_INTERACTION, COMPONENT_ID_TO_INTERACTION,
                   dispatched, splitVars, sessionVars, loopVars,
                   executorVars>>

\* The position of a command nested under parent (None: top level).
Position(parent, name) == parent \o <<name>>

\* register(Command, name, action, parent): the action is placed in the
\* command tree one level below its parent, which is registered; the tree
\* is at most three levels deep.  The tree is a set of <<path, action>>.
register(name, action, parent) ==
    /\ dispatched = None
    /\ Cardinality(COMMAND_ID_TO_INTERACTION) < MaxNodes
    /\ parent = None \/ parent \in Keys(COMMAND_ID_TO_INTERACTION)
    /\ Len(Position(parent, name)) <= MaxDepth
    /\ Position(parent, name) \notin Keys(COMMAND_ID_TO_INTERACTION)
    /\ COMMAND_ID_TO_INTERACTION' =
           COMMAND_ID_TO_INTERACTION \cup {<<Position(parent, name), action>>}
    /\ UNCHANGED <<COMMANDS, COMPONENT_ID_TO_INTERACTION, registered,
                   dispatched, splitVars, sessionVars, loopVars,
                   executorVars>>

\* register(Component, custom_id, action)
register_component(custom_id, action) ==
    /\ dispatched = None
    /\ custom_id \notin Keys(COMPONENT_ID_TO_INTERACTION)
    /\ COMPONENT_ID_TO_INTERACTION' =
           COMPONENT_ID_TO_INTERACTION \cup {<<custom_id, action>>}
    /\ UNCHANGED <<COMMANDS, COMMAND_ID_TO_INTERACTION, registered,
                   dispatched, splitVars, sessionVars, loopVars,
                   executorVars>>

----------------------------------------------------------------------------
(* Controller.dispatch_command and dispatch_component                      *)

\* The loop of dispatch_command (lines 214-222): while the first option is
\* a sub-command or a group, action = action[option.name], and a KeyError
\* or TypeError becomes a ValueError.  node is the position reached, path
\* the names still to follow.  Gives [raised, node].
\* The loop leaving after one level
DescendOnce(node, path) ==
    IF path = <<>>
    THEN [raised |-> None, node |-> Some(node)]
    ELSE IF Position(node, path[1]) \in Keys(COMMAND_ID_TO_INTERACTION)
    THEN [raised |-> None, node |-> Some(Position(node, path[1]))]
    ELSE [raised |-> Some("ValueError"), node |-> None]

RECURSIVE Descend(_, _)
Descend(node, path) ==
    IF path = <<>>
    THEN [raised |-> None, node |-> Some(node)]
    ELSE IF Position(node, path[1]) \in Keys(COMMAND_ID_TO_INTERACTION)
    THEN Descend(Position(node, path[1]), SubSeq(path, 2, Len(path)))
    ELSE [raised |-> Some("ValueError"), node |-> None]

\* self.context(): context takes the interaction, and is given none
context == [raised |-> Some("TypeError")]

\* dispatch_command(interaction): interaction.id and the names of its nested
\* sub-command options
dispatch_command(id, path) ==
    /\ dispatched = None
    /\ dispatched' = Some(
         IF <<id>> \notin Keys(COMMAND_ID_TO_INTERACTION)
         THEN [type |-> "command", id |-> id, path |-> path,
               action |-> None, raised |-> Some("KeyError"),
               invoked |-> None, sent |-> <<>>]
         ELSE LET found == Descend(<<id>>, path)
              IN  IF found.raised # None
                  THEN [type |-> "command", id |-> id, path |-> path,
                        action |-> None, raised |-> found.raised,
                        invoked |-> None, sent |-> <<>>]
                  ELSE [type |-> "command", id |-> id, path |-> path,
                        action |-> Some(Lookup(COMMAND_ID_TO_INTERACTION,
                                               found.node[1])),
                        raised |-> context.raised,
                        invoked |-> None, sent |-> <<>>])
    /\ UNCHANGED <<COMMANDS, COMMAND_ID_TO_INTERACTION,
                   COMPONENT_ID_TO_INTERACTION, registered, splitVars,
                   sessionVars, loopVars, executorVars>>

\* dispatch_component(interaction): interaction.custom_id
dispatch_component(custom_id) ==
    /\ dispatched = None
    /\ dispatched' = Some(
         IF custom_id \notin Keys(COMPONENT_ID_TO_INTERACTION)
         THEN [type |-> "component", id |-> custom_id, path |-> <<>>,
               action |-> None, raised |-> Some("KeyError"),
               invoked |-> None, sent |-> <<>>]
         ELSE [type |-> "component", id |-> custom_id, path |-> <<>>,
               action |-> Some(Lookup(COMPONENT_ID_TO_INTERACTION, custom_id)),
               raised |-> context.raised,
               invoked |-> None, sent |-> <<>>])
    /\ UNCHANGED <<COMMANDS, COMMAND_ID_TO_INTERACTION,
                   COMPONENT_ID_TO_INTERACTION, registered, splitVars,
                   sessionVars, loopVars, executorVars>>

\* dispatch_interaction(event): by event.interaction.type
dispatch_interaction(type, id, path) ==
    IF type = "command" THEN dispatch_command(id, path)
    ELSE dispatch_component(id)

Paths == {<<>>} \cup {<<a>> : a \in Names} \cup {<<a, b>> : a, b \in Names}

----------------------------------------------------------------------------
(* Executor (executor.py): one Executor, used for several interactions     *)

\* The interactions that contexts of the Executor are made for
\* (Executor.Context(executor, interaction), lines 25-27)
Interactions == {"i1", "i2"}

\* Executor.__init__ (lines 19-22)
Executor_init == [ephemeral |-> None, message |-> None]

\* Executor.Context.defer (lines 29-32) with the Executor's fields ex:
\* self.bot at line 30 is an attribute the context does not have.  Gives
\* [executor, raised].
Context_defer(ex, eph) ==
    [executor |-> ex, raised |-> Some("AttributeError")]

\* Executor.Context.send (lines 34-48) with the Executor's fields ex; eph is
\* an Optional[bool].  Past lines 41-47, self.message at line 48 is an
\* attribute the context does not have.  Gives [executor, raised].
Context_send(ex, follow_up, eph) ==
    IF eph # None
    THEN IF (follow_up /\ ex.message # None) \/ ex.ephemeral = None
         THEN [executor |-> [ex EXCEPT !.ephemeral = eph],
               raised |-> Some("AttributeError")]
         ELSE [executor |-> ex, raised |-> Some("ValueError")]
    ELSE [executor |-> ex, raised |-> Some("AttributeError")]

\* The context of interaction i is asked to defer
Executor_defer(i, eph) ==
    /\ Len(handled) < MaxOps
    /\ LET r == Context_defer(executor, eph)
       IN  /\ executor' = r.executor
           /\ handled' = Append(handled,
                 [interaction |-> i, op |-> "defer", follow_up |-> FALSE,
                  ephemeral |-> Some(eph), raised |-> r.raised])
    /\ UNCHANGED <<splitVars, sessionVars, registryVars, loopVars>>

\* The context of interaction i is asked to send
Executor_send(i, follow_up, eph) ==
    /\ Len(handled) < MaxOps
    /\ LET r == Context_send(executor, follow_up, eph)
       IN  /\ executor' = r.executor
           /\ handled' = Append(handled,
                 [interaction |-> i, op |-> "send", follow_up |-> follow_up,
                  ephemeral |-> eph, raised |-> r.raised])
    /\ UNCHANGED <<splitVars, sessionVars, registryVars, loopVars>>

----------------------------------------------------------------------------
(* The specifications                                                      *)

IdleSplit ==
    /\ embed = FieldEmbed(None, 0)
    /\ embeds = <<>>

IdleSession ==
    /\ interaction = "command"
    /\ message = None
    /\ ephemeral = None
    /\ calls = <<>>
    /\ pc = "idle"
    /\ last = None
    /\ outcome = None

IdleRegistry ==
    /\ COMMANDS = {}
    /\ COMMAND_ID_TO_INTERACTION = {}
    /\ COMPONENT_ID_TO_INTERACTION = {}
    /\ registered = None
    /\ dispatched = None

IdleLoop == loop = None

IdleExecutor ==
    /\ executor = Executor_init
    /\ handled = <<>>

\* paginate_embed on its own
InitPaginate ==
    InitSplit /\ IdleSession /\ IdleRegistry /\ IdleLoop /\ IdleExecutor
NextPaginate == Paginate
SpecPaginate == InitPaginate /\ [][NextPaginate]_vars

\* paginate_embed, iteration by iteration
InitPaginateLoop == InitLoop /\ IdleSession /\ IdleRegistry /\ IdleExecutor

NextPaginateLoop ==
    \/ Iterate
    \/ CheckPages

SpecPaginateLoop == InitPaginateLoop /\ [][NextPaginateLoop]_vars

\* One interaction: execute runs an action, which uses its context
Init ==
    IdleSplit /\ InitSession /\ IdleRegistry /\ IdleLoop /\ IdleExecutor

Next ==
    \/ \E eph, follow_up \in BOOLEAN : defer(eph, follow_up)
    \/ \E args \in {None, Some(Str("text"))}, eph, follow_up \in BOOLEAN,
          kwembed \in {None} \cup {Some(e) : e \in ActionEmbeds} :
            send(args, eph, follow_up, kwembed)
    \/ \E ending \in Endings : execute(ending)

Spec == Init /\ [][Next]_vars

\* One interaction's context on its own: defer and send, in any order
NextContext ==
    \/ \E eph, follow_up \in BOOLEAN : defer(eph, follow_up)
    \/ \E args \in {None, Some(Str("text"))}, eph, follow_up \in BOOLEAN,
          kwembed \in {None} \cup {Some(e) : e \in ActionEmbeds} :
            send(args, eph, follow_up, kwembed)

SpecContext == Init /\ [][NextContext]_vars

\* Registration by Command.__init__
InitRegistry ==
    IdleSplit /\ IdleSession /\ IdleRegistry /\ IdleLoop /\ IdleExecutor

NextRegistry ==
    \E name \in Names, decorated \in Actions : Command_init(name, decorated)

SpecRegistry == InitRegistry /\ [][NextRegistry]_vars

\* The command tree is built, then an interaction is dispatched (a dispatch
\* leaves the registry as it is, so a second one would find the same)
NextDispatch ==
    \/ \E name \in Names,
          parent \in {None} \cup Keys(COMMAND_ID_TO_INTERACTION) :
            register(name, NewAction, parent)
    \/ \E custom_id \in CustomIds, action \in ComponentActions :
            register_component(custom_id, action)
    \/ \E id \in Names, path \in Paths :
            dispatch_interaction("command", id, path)
    \/ \E id \in CustomIds :
            dispatch_interaction("component", id, <<>>)

SpecDispatch == InitRegistry /\ [][NextDispatch]_vars

\* One Executor; the contexts of the interactions are used in any order
InitExecutor ==
    IdleSplit /\ IdleSession /\ IdleRegistry /\ IdleLoop /\ IdleExecutor

NextExecutor ==
    \/ \E i \in Interactions, eph \in BOOLEAN : Executor_defer(i, eph)
    \/ \E i \in Interactions, follow_up \in BOOLEAN,
          eph \in {None, Some(TRUE), Some(FALSE)} :
            Executor_send(i, follow_up, eph)

SpecExecutor == InitExecutor /\ [][NextExecutor]_vars

----------------------------------------------------------------------------
(* The response session: Spec                                              *)

\* The initial message responses issued so far: create_interaction_response
\* with a message type (not a deferral).
InitialResponses ==
    {i \in 1..Len(calls) :
        /\ calls[i].method = "create_interaction_response"
        /\ calls[i].type \in {"MESSAGE_CREATE", "(MESSAGE_UPDATE,)"}}

\* This step is a call of op on the context.
Called(op) == last' # last /\ last'[1].op = op

\* C1: whatever defer and send calls are made on a session, the initial
\* message response is issued at most once.
C1_AtMostOneInitialResponse == Cardinality(InitialResponses) <= 1

\* C2: once an initial response has been issued by send, a send with
\* follow_up false fails with InvalidStateError and makes no outbound call.
C2_SecondSendRejected ==
    [][(InitialResponses # {} /\ Called("send") /\ ~last'[1].follow_up)
         => (last'[1].raised = Some("InvalidStateError") /\ calls' = calls)]_vars

\* C3: defer on a session past Unset (an outbound call has been made) makes
\* no outbound call and leaves the privacy flag and the message as they are.
C3_DeferIsNoOpPastUnset ==
    [][(calls # <<>> /\ Called("defer"))
         => (calls' = calls /\ ephemeral' = ephemeral /\ message' = message)]_vars

\* C4: once the privacy flag is set, a non-follow-up defer or send with
\* another ephemeral value fails with InvalidStateError and leaves the flag;
\* a follow-up send after an initial message raises no such error.
C4_PrivacyFixedOnFirstUse ==
    [][/\ (/\ ephemeral # None
           /\ last' # last
           /\ ~last'[1].follow_up
           /\ Some(last'[1].ephemeral) # ephemeral)
          => (/\ last'[1].raised = Some("InvalidStateError")
              /\ ephemeral' = ephemeral)
       /\ (InitialResponses # {} /\ Called("send") /\ last'[1].follow_up)
          => last'[1].raised # Some("InvalidStateError")]_vars

\* C5: whatever the action does, execute ends without an error escaping.
C5_NothingEscapesExecute ==
    pc = "done" => outcome[1].escaped = None

\* C6: when an action that sent nothing raises NozomiError(m), exactly one
\* outbound response is made, its body is m ("Failed" without m), it is no
\* follow-up, and nothing escapes.
C6_UserFacingErrorAnswered ==
    (/\ pc = "done"
     /\ outcome[1].ending.kind = "NozomiError"
     /\ outcome[1].before = <<>>)
      => /\ Len(calls) = 1
         /\ calls[1].method # "execute_webhook"
         /\ calls[1].content =
              Some(IF outcome[1].ending.args # <<>>
                   THEN outcome[1].ending.args[1] ELSE Str("Failed"))
         /\ outcome[1].escaped = None

\* C15: when an action that sent nothing raises an error that is not a
\* NozomiError, whatever its type or text, the outbound responses are one
\* message with the same generic body.
C15_InternalErrorAnsweredGenerically ==
    (/\ pc = "done"
     /\ outcome[1].ending.kind = "Exception"
     /\ outcome[1].before = <<>>)
      => /\ Len(calls) = 1
         /\ calls[1].content = Some(Str("Internal server error"))

\* C17: a send with follow_up false on a session without initial message
\* (Unset or Deferred) issues one create_interaction_response, of type
\* MESSAGE_CREATE, or MESSAGE_UPDATE for a component interaction, and
\* records the message, so that a later send finds it sent.
C17_FirstSendMovesToSent ==
    [][(/\ InitialResponses = {}
        /\ Called("send")
        /\ ~last'[1].follow_up
        /\ last'[1].raised = None)
         => /\ Len(calls') = Len(calls) + 1
            /\ calls'[Len(calls')].method = "create_interaction_response"
            /\ calls'[Len(calls')].type =
                  (IF IsComponent THEN "MESSAGE_UPDATE" ELSE "MESSAGE_CREATE")
            /\ message' # None]_vars

\* The follow-up calls made so far
FollowUps == {i \in 1..Len(calls) : calls[i].method = "execute_webhook"}

\* C18: a send with follow_up true, from any state of the session, issues
\* one follow-up call (execute_webhook, not an initial response and not an
\* edit), which makes one follow-up more.
C18_FollowUpSendFollowsUp ==
    [][(/\ Called("send")
        /\ last'[1].follow_up
        /\ last'[1].raised = None)
         => /\ Len(calls') = Len(calls) + 1
            /\ calls'[Len(calls')].method = "execute_webhook"
            /\ Cardinality(FollowUps') = Cardinality(FollowUps) + 1]_vars

\* This step is a send of an embed that paginate_embed splits into more
\* than one page.
SentPages == paginate_embed(last'[1].embed[1]).embeds

SendOfSeveralPages ==
    /\ Called("send")
    /\ last'[1].embed # None
    /\ last'[1].raised = None
    /\ Len(SentPages) > 1

----------------------------------------------------------------------------
(* The registry and the dispatch: SpecRegistry, SpecDispatch               *)

\* C7: when the identifier is not registered or the sub-command path names
\* an absent child, no action is invoked, one generic failure message is
\* sent to the user and no error escapes the dispatch.
C7_ResolutionFailureRecovered ==
    (dispatched # None /\ dispatched[1].action = None)
      => /\ dispatched[1].invoked = None
         /\ Len(dispatched[1].sent) = 1
         /\ dispatched[1].raised = None

C9_DuplicateRejected ==
    [][(registered' # None /\ registered'[1].name \in Keys(COMMANDS))
         => (registered'[1].raised = Some("ConflictError")
             /\ COMMANDS' = COMMANDS)]_vars

----------------------------------------------------------------------------
(* The pagination: SpecPaginate                                            *)

Returned == embeds # <<>> /\ embeds[1].raised = None

Pages == embeds[1].embeds

\* C10: every page paginate_embed returns has a description of at most 2048
\* characters and at most 15 fields, carried-over pages included.
C10_PagesWithinLimits ==
    Returned =>
        \A k \in 1..Len(Pages) :
            /\ Pages[k].description # None
                 => Len(Pages[k].description[1]) <= DescriptionLimit
            /\ Len(Pages[k].fields) <= FieldLimit

\* A second page made of a carried-over description that fills it and of
\* carried-over fields that fill it, with a third page after it.
C10_Witness ==
    /\ Returned
    /\ Len(Pages) >= 3
    /\ Len(Pages[2].description[1]) = DescriptionLimit
    /\ Len(Pages[2].fields) = FieldLimit

\* The body of an embed as a text: None is the empty text.
Body(e) == IF e.description = None THEN <<>> ELSE e.description[1]

RECURSIVE JoinBodies(_)
JoinBodies(pages) ==
    IF pages = <<>> THEN <<>>
    ELSE Body(Head(pages)) \o JoinBodies(Tail(pages))

RECURSIVE JoinFields(_)
JoinFields(pages) ==
    IF pages = <<>> THEN <<>>
    ELSE Head(pages).fields \o JoinFields(Tail(pages))

\* C11: the descriptions of the returned pages, joined in page order, are
\* the description of the input character for character, and their field
\* lists, joined in page order, are the fields of the input in their order.
C11_RoundTrip ==
    Returned =>
        /\ JoinBodies(Pages) = Body(embed)
        /\ JoinFields(Pages) = embed.fields

\* The page loop builds more than 10 pages for e: it is run on e with a
\* title, so that every page can be made, and ends on the test of line 69.
Overflows(e) ==
    paginate_embed([e EXCEPT !.title = Some("T")]).raised = Some("ValueError")

\* C12: paginate_embed ends with the overflow error (ValueError, line 70)
\* exactly when the page loop needs more than 10 pages for the input, and
\* what it returns has between 1 and 10 pages.
C12_OverflowIffTooManyPages ==
    embeds # <<>> =>
        /\ (embeds[1].raised = Some("ValueError")) <=> Overflows(embed)
        /\ Returned => Len(Pages) \in 1..PageLimit

\* C13: an embed whose description is shorter than 2048 characters and
\* that has at most 15 fields, with a title or without, comes back as one
\* page with the title, the description and the fields of the input.
C13_SmallEmbedIsOnePage ==
    (/\ embeds # <<>>
     /\ Len(Body(embed)) < DescriptionLimit
     /\ Len(embed.fields) <= FieldLimit)
      => /\ Returned
         /\ Pages = <<embed>>

\* An embed without a title, with a description of 2047 characters that
\* holds a newline and with one field, came back as one page equal to it.
C13_Witness ==
    /\ Returned
    /\ embed.title = None
    /\ Len(Body(embed)) = DescriptionLimit - 1
    /\ \E i \in 1..Len(Body(embed)) : Body(embed)[i] = NL
    /\ Len(embed.fields) = 1
    /\ Pages = <<embed>>

Ceil(n, d) == (n + d - 1) \div d

\* The pages of a titled embed without description and with n fields:
\* ceil(n/15) pages, 15 fields on every page but the last, which holds the
\* rest, the title on page 1 and the title followed by " (k)" on page k.
GreedyFieldPages ==
    LET n == Len(embed.fields)
    IN  /\ Returned
        /\ Len(Pages) = Ceil(n, FieldLimit)
        /\ \A k \in 1..Len(Pages) :
              /\ Len(Pages[k].fields) =
                    IF k < Len(Pages) THEN FieldLimit
                    ELSE n - FieldLimit * (k - 1)
              /\ Pages[k].title =
                    IF k = 1 THEN embed.title
                    ELSE Some(embed.title[1] \o " (" \o ToString(k) \o ")")

\* C14 as stated: every titled embed without description and with n > 15
\* fields comes back as the pages of GreedyFieldPages.
C14_GreedyFieldPages_AnyCount ==
    (/\ embeds # <<>>
     /\ embed.title # None
     /\ ~Truthy(embed.description)
     /\ Len(embed.fields) > FieldLimit)
      => GreedyFieldPages

\* C14, amended: a titled embed without description and with n fields,
\* 15 < n <= 150, comes back as ceil(n/15) pages, 15 fields on every page
\* but the last, titled T on page 1 and T + " (k)" on page k.
C14_GreedyFieldPages ==
    (/\ embeds # <<>>
     /\ embed.title # None
     /\ ~Truthy(embed.description)
     /\ Len(embed.fields) > FieldLimit
     /\ Len(embed.fields) <= PageLimit * FieldLimit)
      => GreedyFieldPages

\* The embed titled X with 20 fields came back as two pages of 15 and 5
\* fields titled X and X (2).
C14_Witness ==
    /\ Returned
    /\ embed.title = Some("X")
    /\ embed.description = None
    /\ Len(embed.fields) = 20
    /\ Len(Pages) = 2
    /\ Len(Pages[1].fields) = 15
    /\ Len(Pages[2].fields) = 5
    /\ Pages[1].title = Some("X")
    /\ Pages[2].title = Some("X (2)")

----------------------------------------------------------------------------
(* The page loop: SpecPaginateLoop                                         *)

\* This step is an iteration of the page loop.
Iterated == loop' # loop /\ loop[1].embed # None

\* What the iteration leaves to the next one is less than what it started
\* with: a shorter description, or fewer fields.
CarriesLess ==
    LET before == loop[1].embed[1]
        after == loop'[1].embed[1]
    IN  \/ Len(Body(after)) < Len(Body(before))
        \/ Len(after.fields) < Len(before.fields)

\* C20: every iteration of the page loop either ends the loop, on a page
\* with nothing carried over, or leaves to the next iteration a shorter
\* description or fewer fields than it started with; none ends in an
\* error, so that the loop comes to a page with nothing carried over.
C20_PageLoopReachesLastPage ==
    [][Iterated
         => /\ loop'[1].raised = None
            /\ loop'[1].embed # None => CarriesLess]_vars

----------------------------------------------------------------------------
(* Interactions handled side by side: SpecExecutor                         *)

\* The calls made on the context of interaction i, in order
OwnCalls(i) == SelectSeq(handled, LAMBDA h : h.interaction = i)

\* How the calls end when they are the only ones made, from the fields ex
RECURSIVE Alone(_, _)
Alone(own, ex) ==
    IF own = <<>> THEN <<>>
    ELSE LET h == Head(own)
             r == IF h.op = "send"
                  THEN Context_send(ex, h.follow_up, h.ephemeral)
                  ELSE Context_defer(ex, h.ephemeral[1])
         IN  <<r.raised>> \o Alone(Tail(own), r.executor)

\* C16: however the calls of several interactions interleave, the defer
\* and send calls of each interaction end as they would if that interaction
\* were the only one handled: no call reads or writes what a call of
\* another interaction left.
C16_HandledAsIfAlone ==
    \A i \in Interactions :
        [k \in 1..Len(OwnCalls(i)) |-> OwnCalls(i)[k].raised]
            = Alone(OwnCalls(i), Executor_init)

====
